---- MODULE Spec2Model ----
(***************************************************************************)
(* Verification model of the real-time alerting and streaming core of the  *)
(* EMS agent:                                                              *)
(*   - AlertManager (services/monitoring/service.py): evaluate_alert,      *)
(*     _fire_alert, _resolve_alert, _handle_escalation and the             *)
(*     /alerts/{alert_id}/acknowledge handler, run on one asyncio event    *)
(*     loop; a step of the model is the code between two await points.     *)
(*   - StreamBuffer (services/streaming/service.py): add, get_recent and   *)
(*     flush_old called from several threads under the buffer's RLock.     *)
(***************************************************************************)
EXTENDS Integers, Sequences, FiniteSets, TLC

\* ------------------------------------------------------------------------
\* Bounds of the model
\* ------------------------------------------------------------------------
\* number of AlertInstance objects created in one run
MaxInst == 2

\* StreamBuffer.max_size of the buffer under test (10000 by default)
max_size == 3

\* number of StreamBuffer.add calls in one run
MaxAdds == 4

\* the value of an unset Optional field (resolved_at, acknowledged_by, ...)
None == -1

\* ------------------------------------------------------------------------
\* Alert definitions (MonitoringService._load_default_alerts)
\* ------------------------------------------------------------------------
HighCpuUsage ==
    [alert_id |-> "high_cpu_usage", threshold |-> 80, comparison |-> ">",
     duration |-> 300,
     escalation_rules |-> <<>>,
     notification_channels |-> {"email", "slack"}]

ServiceDown ==
    [alert_id |-> "service_down", threshold |-> 1, comparison |-> "==",
     duration |-> 60,
     escalation_rules |->
        << [level |-> 1, delay_minutes |-> 5, channels |-> {"pagerduty"}],
           [level |-> 2, delay_minutes |-> 10, channels |-> {"email"}] >>,
     notification_channels |-> {"email", "pagerduty"}]

Alerts == {HighCpuUsage, ServiceDown}

AlertIds == {a.alert_id : a \in Alerts}

\* metric values handed to evaluate_alert
Values == {1, 90, 95}

\* label dicts handed to evaluate_alert, as insertion-ordered sequences of
\* <<name, value>> items; the last two hold the same items in another order
LabelDicts ==
    { <<>>, << <<1, 7>>, <<2, 8>> >>, << <<2, 8>>, <<1, 7>> >> }

\* who acknowledges
Users == {"ops"}

\* ------------------------------------------------------------------------
\* Pure helpers of AlertManager
\* ------------------------------------------------------------------------
\* item order of sorted(): by name, then by value
ItemLess(x, y) == x[1] < y[1] \/ (x[1] = y[1] /\ x[2] < y[2])

RECURSIVE InsertSorted(_, _)
InsertSorted(x, s) ==
    IF s = <<>> THEN <<x>>
    ELSE IF ItemLess(x, Head(s)) THEN <<x>> \o s
    ELSE <<Head(s)>> \o InsertSorted(x, Tail(s))

\* sorted(labels.items())
RECURSIVE SortedItems(_)
SortedItems(labels) ==
    IF labels = <<>> THEN <<>>
    ELSE InsertSorted(Head(labels), SortedItems(Tail(labels)))

\* the key built without sorted()
AlertKey_Unsorted(alert, labels) == <<alert.alert_id, labels>>

\* alert_key = f"{alert.alert_id}_{hash(str(sorted(labels.items())))}";
\* the string hash is taken to be collision free on the label dicts used
AlertKey(alert, labels) == <<alert.alert_id, SortedItems(labels)>>

\* AlertManager._evaluate_condition
EvaluateCondition(value, threshold, comparison) ==
    CASE comparison = ">"  -> value > threshold
      [] comparison = "<"  -> value < threshold
      [] comparison = ">=" -> value >= threshold
      [] comparison = "<=" -> value <= threshold
      [] comparison = "==" -> value = threshold
      [] comparison = "!=" -> value # threshold
      [] OTHER -> FALSE

\* rule.get('channels', alert.notification_channels)
RuleChannels(rule, alert) ==
    IF "channels" \in DOMAIN rule THEN rule.channels
    ELSE alert.notification_channels

\* dict operations on insertion-ordered dicts, kept as sequences of
\* [key, inst] entries
KeyIn(d, k) == \E n \in 1..Len(d) : d[n].key = k

DictGet(d, k) == d[CHOOSE n \in 1..Len(d) : d[n].key = k].inst

DictSet(d, k, i) ==
    IF KeyIn(d, k)
    THEN [n \in 1..Len(d) |->
            IF d[n].key = k THEN [key |-> k, inst |-> i] ELSE d[n]]
    ELSE Append(d, [key |-> k, inst |-> i])

DictDel(d, k) == SelectSeq(d, LAMBDA e : e.key # k)

\* deque(maxlen=10000).append
HistoryMaxLen == 10000

DequeAppend(q, x, maxlen) ==
    IF Len(q) >= maxlen THEN Append(Tail(q), x) ELSE Append(q, x)

AlertById(id) == CHOOSE a \in Alerts : a.alert_id = id

\* ------------------------------------------------------------------------
\* State
\* ------------------------------------------------------------------------
VARIABLES
    instances,          \* every AlertInstance object created, by creation
    active_alerts,      \* AlertManager.active_alerts: key -> instance
    alert_history,      \* AlertManager.alert_history
    escalation_timers,  \* AlertManager.escalation_timers: key -> task
    tasks,              \* the _handle_escalation task of each instance
    notifications,      \* per instance, the POSTs made to /send
    errors,             \* the kinds of message written by logger.error
    ev,                 \* the evaluate_alert call in progress
    now                 \* datetime.now()

alertVars == <<instances, active_alerts, alert_history, escalation_timers,
               tasks, notifications, errors, ev, now>>

VARIABLES
    buffer,             \* StreamBuffer.buffer
    total_messages,     \* StreamBuffer.total_messages
    lock,               \* StreamBuffer.lock: the thread that holds it, or 0
    thr,                \* per thread, the StreamBuffer call it is in
    clock,              \* time.time()
    added,              \* every message appended so far, in append order
    completed           \* number of add calls that have returned

bufVars == <<buffer, total_messages, lock, thr, clock, added, completed>>

\* WebSocketStreamer (services/streaming/service.py)
VARIABLES
    connections,        \* WebSocketStreamer.connections
    subscriptions,      \* WebSocketStreamer.subscriptions: topic -> connections
    ws_state,           \* per websocket: "new", "open" or "closed"
    reading,            \* per websocket: whether its peer still reads the socket
    broadcasts          \* the broadcast calls made so far, with their sends

wsVars == <<connections, subscriptions, ws_state, reading, broadcasts>>

\* StreamingService: the per-message pipeline (services/streaming/service.py)
VARIABLES
    pipe,               \* the message being handled and the steps done for it
    metric_stats,       \* RealTimeAnalyzer.metric_stats of the message's key
    redis,              \* sizes of the time series and of the 'anomalies' list
    log,                \* the kinds of error logged so far
    received,           \* number of messages that have arrived
    accepted            \* number of them that became a StreamMessage

pipeVars == <<pipe, metric_stats, redis, log, received, accepted>>

\* RealTimeAnalyzer (services/streaming/service.py)
VARIABLES
    windows,            \* per metric_key: metric_stats[key]['values']
    stats,              \* per metric_key: metric_stats[key]['mean'] and ['std']
    fed,                \* per metric_key: every value appended so far
    last_analysis,      \* the dict the last analyze_message call returned
    call                \* per thread, the analyze_message call it is in

anVars == <<windows, stats, fed, last_analysis, call>>

\* CircuitBreaker (common/base_service.py) and CircuitBreakerGateway
\* (gateway/api_gateway.py)
VARIABLES
    breaker,            \* CircuitBreaker: state, failure_count, last_failure_time
    cb_calls,           \* the calls of CircuitBreaker.call that await func
    dicts,              \* the service_state dicts created so far
    service_states,     \* CircuitBreakerGateway.service_states[service]: a dict, or None
    gw_calls,           \* the calls of call_service that await func
    cb_now              \* time.time() / datetime.now()

cbVars == <<breaker, cb_calls, dicts, service_states, gw_calls, cb_now>>

vars == <<alertVars, bufVars, wsVars, pipeVars, anVars, cbVars>>

\* what the actions of the alert manager leave alone
alertOthers == <<bufVars, wsVars, pipeVars, anVars, cbVars>>

\* what the actions of the stream buffer leave alone
bufOthers == <<alertVars, wsVars, pipeVars, anVars, cbVars>>

\* what the actions of the WebSocket streamer leave alone
wsOthers == <<alertVars, bufVars, pipeVars, anVars, cbVars>>

\* what the actions of the pipeline leave alone (they add to the buffer)
pipeOthers == <<alertVars, wsVars, lock, thr, clock, anVars, cbVars>>

\* what the actions of the analyzer leave alone
anOthers == <<alertVars, bufVars, wsVars, pipeVars, cbVars>>

\* what the actions of the circuit breakers leave alone
cbOthers == <<alertVars, bufVars, wsVars, pipeVars, anVars>>

Idle == [pc |-> "idle", alert_id |-> "", key |-> <<>>, inst |-> 0]

InitAlerts ==
    /\ instances = <<>>
    /\ active_alerts = <<>>
    /\ alert_history = <<>>
    /\ escalation_timers = <<>>
    /\ tasks = <<>>
    /\ notifications = <<>>
    /\ errors = {}
    /\ ev = Idle
    /\ now = 0

\* the threads that call the StreamBuffer (the MQTT callback thread and
\* the event loop thread)
Threads == {1, 2}

\* readings of time.time() and message timestamps, in seconds
TimeStamps == {0, 1}

ThreadIdle == [pc |-> "idle", msg |-> [id |-> 0, timestamp |-> 0],
               at |-> 0, seconds |-> 0, cutoff |-> 0, tmp |-> 0,
               result |-> <<>>, seen |-> 0]

\* StreamBuffer.__init__
InitBuffer ==
    /\ buffer = <<>>
    /\ total_messages = 0
    /\ lock = 0
    /\ thr = [t \in Threads |-> ThreadIdle]
    /\ clock = 0
    /\ added = <<>>
    /\ completed = 0

\* websockets accepted by the FastAPI endpoint /streaming/ws
EndpointConns == {1}

\* websockets accepted by the websockets.serve server on websocket_port
ServerConns == {2}

Conns == EndpointConns \cup ServerConns

\* "all" and two topics of the form "{device_id}:{metric_type}"
Topics == {"all", "dev1:voltage", "dev1:current"}

\* WebSocketStreamer.__init__
InitWs ==
    /\ connections = {}
    /\ subscriptions = [T \in Topics |-> {}]
    /\ ws_state = [c \in Conns |-> "new"]
    /\ reading = [c \in Conns |-> TRUE]
    /\ broadcasts = <<>>

\* no message is being handled
NoMessage == [pc |-> "idle", src |-> "", kind |-> "", value |-> 0,
              steps |-> <<>>, is_anomaly |-> FALSE, failed |-> FALSE]

\* StreamingService.__init__ and RealTimeAnalyzer.__init__: no value seen,
\* mean and std 0.0; `nan` tells whether a NaN is among the values
InitPipeline ==
    /\ pipe = NoMessage
    /\ metric_stats = [n |-> 0, sum |-> 0, sumsq |-> 0, nan |-> FALSE]
    /\ redis = [ts |-> 0, anomalies |-> 0]
    /\ log = {}
    /\ received = 0
    /\ accepted = 0

\* the metric keys f"{device_id}:{metric_type}" of the messages
Keys == {"dev1:voltage", "dev1:current"}

\* the threads that call analyze_message: the network thread of the MQTT
\* client and the thread of the event loop (simulate_data_stream)
AnThreads == {"mqtt", "loop"}

NoCall == [pc |-> "idle", key |-> "", value |-> 0, values |-> <<>>]

\* the float 0.0 as a mean: sum / n
ZeroMean == [sum |-> 0, n |-> 1]

\* the float 0.0 as a standard deviation: sqrt(nvar) / n
ZeroStd == [nvar |-> 0, n |-> 1]

\* the float 0.0 as an anomaly score: sqrt(num / den), and on which side of
\* that real number the computed float lies (-1 below, 0 on it, 1 above)
ZeroScore == [num |-> 0, den |-> 1, err |-> 0]

NoAnalysis == [key |-> "", value |-> 0, is_anomaly |-> FALSE,
               anomaly_score |-> ZeroScore, trend |-> "stable",
               mean |-> ZeroMean, std |-> ZeroStd]

\* RealTimeAnalyzer.__init__: the defaultdict gives every key an empty
\* deque, mean 0.0 and std 0.0 on first use
InitAnalyzer ==
    /\ windows = [k \in Keys |-> <<>>]
    /\ stats = [k \in Keys |-> [mean |-> ZeroMean, std |-> ZeroStd]]
    /\ fed = [k \in Keys |-> <<>>]
    /\ last_analysis = NoAnalysis
    /\ call = [t \in AnThreads |-> NoCall]

\* the concurrent calls through one breaker that are followed
CallSlots == {1, 2}

NoBreakerCall == [pc |-> "idle", trial |-> FALSE, dict |-> 0]

\* CircuitBreaker.__init__ and CircuitBreakerGateway.__init__
InitBreakers ==
    /\ breaker = [state |-> "closed", failure_count |-> 0,
                  last_failure_time |-> None]
    /\ cb_calls = [c \in CallSlots |-> NoBreakerCall]
    /\ dicts = <<>>
    /\ service_states = 0
    /\ gw_calls = [c \in CallSlots |-> NoBreakerCall]
    /\ cb_now = 0

Init == InitAlerts /\ InitBuffer /\ InitWs /\ InitPipeline /\ InitAnalyzer /\ InitBreakers

\* task.cancel(): a task that waits (in sleep or in the POST) gets
\* CancelledError at its await and ends; a finished task is not changed
Cancel(ts, i) ==
    IF ts[i].state \in {"sleeping", "sending"}
    THEN [ts EXCEPT ![i].state = "cancelled"]
    ELSE ts

\* ------------------------------------------------------------------------
\* AlertManager.evaluate_alert
\* ------------------------------------------------------------------------
\* every true evaluation taken for a new alert
IsNewAlert_Always(key) == TRUE

\* `alert_key not in self.active_alerts`
IsNewAlert(key) == ~KeyIn(active_alerts, key)

\* AlertInstance(...) as built by evaluate_alert; the dataclass defaults
\* give escalation_level 0 and the acknowledged fields unset
NewInstance(alert, key, labels, value) ==
    [instance_id |-> key, alert_id |-> alert.alert_id,
     fired_at |-> now, resolved_at |-> None,
     current_value |-> value, threshold |-> alert.threshold,
     labels |-> labels,
     escalation_level |-> 0, acknowledged |-> FALSE,
     acknowledged_by |-> "none", acknowledged_at |-> None]

\* the POSTs to {notification_service_url}/send made for an instance: the
\* current_value of each fire payload, the number of RESOLVED payloads,
\* the level and channels of each ESCALATED payload
NoNotifications == [fire |-> <<>>, resolve |-> 0, escalated |-> <<>>]

NoTask == [state |-> "none", rule |-> 0]

\* the call up to its first await: the condition, the key, and either the
\* new instance with the POST of _fire_alert started, the update of the
\* existing instance, or resolved_at with the POST of _resolve_alert
\* started
EvaluateAlert(alert, labels, value) ==
    /\ ev.pc = "idle"
    /\ LET triggered == EvaluateCondition(value, alert.threshold,
                                          alert.comparison)
           key == AlertKey(alert, labels)
           i == Len(instances) + 1
       IN
       IF triggered
       THEN IF IsNewAlert(key)
            THEN /\ i <= MaxInst
                 /\ instances' = Append(instances,
                                    NewInstance(alert, key, labels, value))
                 /\ tasks' = Append(tasks, NoTask)
                 /\ notifications' =
                       Append(notifications,
                              [NoNotifications EXCEPT !.fire = <<value>>])
                 /\ active_alerts' = DictSet(active_alerts, key, i)
                 /\ ev' = [pc |-> "firing", alert_id |-> alert.alert_id,
                           key |-> key, inst |-> i]
                 /\ UNCHANGED <<alert_history, escalation_timers, errors,
                                now>>
            ELSE /\ instances' =
                       [instances EXCEPT
                          ![DictGet(active_alerts, key)].current_value =
                              value]
                 /\ UNCHANGED <<active_alerts, alert_history,
                                escalation_timers, tasks, notifications,
                                errors, ev, now>>
       ELSE IF KeyIn(active_alerts, key)
            THEN LET j == DictGet(active_alerts, key) IN
                 /\ instances' = [instances EXCEPT ![j].resolved_at = now]
                 /\ notifications' =
                       [notifications EXCEPT ![j].resolve = @ + 1]
                 /\ ev' = [pc |-> "resolving", alert_id |-> alert.alert_id,
                           key |-> key, inst |-> j]
                 /\ UNCHANGED <<active_alerts, alert_history,
                                escalation_timers, tasks, errors, now>>
            ELSE UNCHANGED alertVars
    /\ UNCHANGED alertOthers

\* how an awaited POST to the notification service can end
SendOutcomes == {"ok", "post_failed"}

\* a failed POST of _fire_alert reaching the except of evaluate_alert
FireAlertRaises_Propagates(outcome) == outcome # "ok"

\* _fire_alert catches every Exception of its POST inside itself, so it
\* never raises into evaluate_alert
FireAlertRaises(outcome) == FALSE

\* _resolve_alert catches every Exception of its POST inside itself
ResolveAlertRaises(outcome) == FALSE

\* logger.error of the handler that catches the failure
Logged(outcome, raises, kind) ==
    IF outcome = "ok" THEN errors
    ELSE IF raises THEN errors \cup {"evaluating"}
    ELSE errors \cup {kind}

\* evaluate_alert after `await self._fire_alert(alert, instance)`: the
\* escalation task is created if the definition has rules.  The awaited
\* network round trip takes longer than the clock's resolution.  (The redis
\* list 'ems_alerts_fired' that _fire_alert also writes is read nowhere in
\* the program and is not part of the state.)
FireAlertReturn(outcome) ==
    /\ ev.pc = "firing"
    /\ LET alert == AlertById(ev.alert_id) IN
       IF ~FireAlertRaises(outcome) /\ alert.escalation_rules # <<>>
       THEN /\ tasks' = [tasks EXCEPT
                           ![ev.inst] = [state |-> "sleeping", rule |-> 1]]
            /\ escalation_timers' =
                  DictSet(escalation_timers, ev.key, ev.inst)
       ELSE UNCHANGED <<tasks, escalation_timers>>
    /\ errors' = Logged(outcome, FireAlertRaises(outcome), "firing")
    /\ now' = now + 1
    /\ ev' = Idle
    /\ UNCHANGED <<instances, active_alerts, alert_history, notifications>>
    /\ UNCHANGED alertOthers

\* the cancelled timer left in the dict
TimersAfterCancel_Kept(timers, key) == timers

\* the timers after `if alert_key in self.escalation_timers: cancel; del`
TimersAfterCancel(timers, key) == DictDel(timers, key)

TasksAfterCancel(ts, timers, key) ==
    IF KeyIn(timers, key) THEN Cancel(ts, DictGet(timers, key)) ELSE ts

\* evaluate_alert after `await self._resolve_alert(alert, instance)`:
\* cancel the escalation timer, append to the history, delete from
\* active_alerts
ResolveAlertReturn(outcome) ==
    /\ ev.pc = "resolving"
    /\ IF ResolveAlertRaises(outcome)
       THEN UNCHANGED <<tasks, escalation_timers, alert_history,
                        active_alerts>>
       ELSE /\ tasks' = TasksAfterCancel(tasks, escalation_timers, ev.key)
            /\ escalation_timers' =
                  TimersAfterCancel(escalation_timers, ev.key)
            /\ alert_history' =
                  DequeAppend(alert_history, ev.inst, HistoryMaxLen)
            /\ active_alerts' = DictDel(active_alerts, ev.key)
    /\ errors' = Logged(outcome, ResolveAlertRaises(outcome), "resolving")
    /\ now' = now + 1
    /\ ev' = Idle
    /\ UNCHANGED <<instances, notifications>>
    /\ UNCHANGED alertOthers

\* ------------------------------------------------------------------------
\* POST /alerts/{alert_id}/acknowledge
\* ------------------------------------------------------------------------
IsActive(i) == \E n \in 1..Len(active_alerts) : active_alerts[n].inst = i

InHistory(i) == \E n \in 1..Len(alert_history) : alert_history[n] = i

Resolved(i) == instances[i].resolved_at # None

\* every active instance matches, whatever its alert_id
Matching_AnyAlert(alert_id) == 1..Len(active_alerts)

\* positions in active_alerts.values() whose instance has this alert_id
Matching(alert_id) ==
    {n \in 1..Len(active_alerts) :
        instances[active_alerts[n].inst].alert_id = alert_id}

Min(S) == CHOOSE x \in S : \A y \in S : x <= y

\* the status of the response of POST /alerts/{alert_id}/acknowledge: the
\* returned message, or HTTPException(status_code=404)
AcknowledgeResponse(alert_id) == IF Matching(alert_id) # {} THEN 200 ELSE 404

\* an acknowledge that also takes the instance out of the active set
acknowledge_alert_Resolves(alert_id, by) ==
    IF Matching(alert_id) # {}
    THEN LET i == active_alerts[Min(Matching(alert_id))].inst
             key == instances[i].instance_id
         IN
         /\ instances' = [instances EXCEPT
                            ![i].acknowledged = TRUE,
                            ![i].acknowledged_by = by,
                            ![i].acknowledged_at = now]
         /\ tasks' = TasksAfterCancel(tasks, escalation_timers, key)
         /\ escalation_timers' = TimersAfterCancel(escalation_timers, key)
         /\ active_alerts' = DictDel(active_alerts, key)
         /\ UNCHANGED <<alert_history, notifications, errors, ev, now>>
         /\ UNCHANGED alertOthers
    ELSE UNCHANGED vars

acknowledge_alert(alert_id, by) ==
    IF Matching(alert_id) # {}
    THEN LET i == active_alerts[Min(Matching(alert_id))].inst
             key == instances[i].instance_id
         IN
         /\ instances' = [instances EXCEPT
                            ![i].acknowledged = TRUE,
                            ![i].acknowledged_by = by,
                            ![i].acknowledged_at = now]
         /\ tasks' = TasksAfterCancel(tasks, escalation_timers, key)
         /\ escalation_timers' = TimersAfterCancel(escalation_timers, key)
         /\ UNCHANGED <<active_alerts, alert_history, notifications,
                        errors, ev, now>>
         /\ UNCHANGED alertOthers
    ELSE UNCHANGED vars

\* ------------------------------------------------------------------------
\* AlertManager._handle_escalation, the task of instance i
\* ------------------------------------------------------------------------
\* the check without its acknowledged half
StillEscalating_IgnoresAck(i) ==
    KeyIn(active_alerts, instances[i].instance_id)

\* `instance.instance_id in self.active_alerts and
\*  not self.active_alerts[instance.instance_id].acknowledged`
StillEscalating(i) ==
    /\ KeyIn(active_alerts, instances[i].instance_id)
    /\ ~instances[DictGet(active_alerts,
                          instances[i].instance_id)].acknowledged

\* the sleep of the current rule is over: check, escalate and start the
\* POST, or break
EscalationWake(i) ==
    /\ i \in 1..Len(tasks)
    /\ tasks[i].state = "sleeping"
    /\ LET alert == AlertById(instances[i].alert_id)
           rule == alert.escalation_rules[tasks[i].rule]
           level == instances[i].escalation_level + 1
       IN
       IF StillEscalating(i)
       THEN /\ instances' = [instances EXCEPT ![i].escalation_level = level]
            /\ notifications' =
                  [notifications EXCEPT
                     ![i].escalated =
                        Append(@, [level |-> level,
                                   channels |-> RuleChannels(rule, alert)])]
            /\ tasks' = [tasks EXCEPT ![i].state = "sending"]
       ELSE /\ tasks' = [tasks EXCEPT ![i].state = "done"]
            /\ UNCHANGED <<instances, notifications>>
    /\ UNCHANGED <<active_alerts, alert_history, escalation_timers, errors,
                   ev, now>>
    /\ UNCHANGED alertOthers

\* the task after its POST: the for loop goes on to the next rule; an
\* exception of the POST leaves the loop through `except Exception`, which
\* encloses the whole loop, and the task ends
TaskAfterSend(task, nrules, outcome) ==
    IF outcome = "ok" /\ task.rule < nrules
    THEN [state |-> "sleeping", rule |-> task.rule + 1]
    ELSE [task EXCEPT !.state = "done"]

EscalationSendReturn(i, outcome) ==
    /\ i \in 1..Len(tasks)
    /\ tasks[i].state = "sending"
    /\ tasks' = [tasks EXCEPT
                   ![i] = TaskAfterSend(tasks[i],
                             Len(AlertById(instances[i].alert_id)
                                    .escalation_rules),
                             outcome)]
    /\ errors' = Logged(outcome, FALSE, "escalation")
    /\ UNCHANGED <<instances, active_alerts, alert_history,
                   escalation_timers, notifications, ev, now>>
    /\ UNCHANGED alertOthers

NextAlerts ==
    \/ \E alert \in Alerts, labels \in LabelDicts, value \in Values :
          EvaluateAlert(alert, labels, value)
    \/ \E outcome \in SendOutcomes : FireAlertReturn(outcome)
    \/ \E outcome \in SendOutcomes : ResolveAlertReturn(outcome)
    \/ \E alert_id \in AlertIds \cup {"no_such_alert"}, by \in Users :
          acknowledge_alert(alert_id, by)
    \/ \E i \in 1..MaxInst : EscalationWake(i)
    \/ \E i \in 1..MaxInst, outcome \in SendOutcomes :
          EscalationSendReturn(i, outcome)

Next == NextAlerts

Spec == Init /\ [][Next]_vars

\* ------------------------------------------------------------------------
\* StreamBuffer (services/streaming/service.py)
\* ------------------------------------------------------------------------
\* arguments of get_recent(seconds) and flush_old(max_age_seconds); the
\* last one reaches back before every timestamp
Forever == Cardinality(TimeStamps)

Windows == {0, 1, Forever}

\* the RLock taken without waiting for its holder
LockFree_NoExclusion(t) == TRUE

\* `with self.lock:` can be entered by thread t (no call re-enters it)
LockFree(t) == lock = 0

\* the comparison of the filter taken strict
Recent_Strict(buf, cutoff) ==
    SelectSeq(buf, LAMBDA m : m.timestamp > cutoff)

\* [msg for msg in self.buffer if msg.timestamp >= cutoff]
Recent(buf, cutoff) == SelectSeq(buf, LAMBDA m : m.timestamp >= cutoff)

\* while self.buffer and self.buffer[0].timestamp < cutoff: popleft()
RECURSIVE FlushOld(_, _)
FlushOld(buf, cutoff) ==
    IF buf # <<>> /\ Head(buf).timestamp < cutoff
    THEN FlushOld(Tail(buf), cutoff)
    ELSE buf

\* time passes
Tick ==
    /\ clock + 1 \in TimeStamps
    /\ clock' = clock + 1
    /\ UNCHANGED <<buffer, total_messages, lock, thr, added, completed>>
    /\ UNCHANGED bufOthers

\* a thread calls add(message); the timestamp comes from the payload or
\* from time.time()
AddCall(t, ts) ==
    /\ thr[t].pc = "idle"
    /\ Len(added) + Cardinality({u \in Threads :
                                    thr[u].pc \in {"add_wait", "add_append"}})
          < MaxAdds
    /\ thr' = [thr EXCEPT ![t].pc = "add_wait",
                          ![t].msg = [id |-> 0, timestamp |-> ts]]
    /\ UNCHANGED <<buffer, total_messages, lock, clock, added, completed>>
    /\ UNCHANGED bufOthers

\* with self.lock:
AddAcquire(t) ==
    /\ thr[t].pc = "add_wait"
    /\ LockFree(t)
    /\ lock' = t
    /\ thr' = [thr EXCEPT ![t].pc = "add_append"]
    /\ UNCHANGED <<buffer, total_messages, clock, added, completed>>
    /\ UNCHANGED bufOthers

\* self.buffer.append(message); messages are numbered in append order
AddAppend(t) ==
    /\ thr[t].pc = "add_append"
    /\ LET m == [id |-> Len(added) + 1,
                 timestamp |-> thr[t].msg.timestamp]
       IN /\ buffer' = DequeAppend(buffer, m, max_size)
          /\ added' = Append(added, m)
          /\ thr' = [thr EXCEPT ![t].pc = "add_load", ![t].msg = m]
    /\ UNCHANGED <<total_messages, lock, clock, completed>>
    /\ UNCHANGED bufOthers

\* self.total_messages += 1, the read
AddLoad(t) ==
    /\ thr[t].pc = "add_load"
    /\ thr' = [thr EXCEPT ![t].pc = "add_store", ![t].tmp = total_messages]
    /\ UNCHANGED <<buffer, total_messages, lock, clock, added, completed>>
    /\ UNCHANGED bufOthers

\* self.total_messages += 1, the write
AddStore(t) ==
    /\ thr[t].pc = "add_store"
    /\ total_messages' = thr[t].tmp + 1
    /\ thr' = [thr EXCEPT ![t].pc = "add_release", ![t].tmp = 0]
    /\ UNCHANGED <<buffer, lock, clock, added, completed>>
    /\ UNCHANGED bufOthers

\* the end of the with block, and the return of add
AddReturn(t) ==
    /\ thr[t].pc = "add_release"
    /\ lock' = IF lock = t THEN 0 ELSE lock
    /\ completed' = completed + 1
    /\ thr' = [thr EXCEPT ![t] = ThreadIdle]
    /\ UNCHANGED <<buffer, total_messages, clock, added>>
    /\ UNCHANGED bufOthers

\* a thread calls get_recent(seconds): cutoff = time.time() - seconds
GetRecentCall(t, seconds) ==
    /\ thr[t].pc = "idle"
    /\ thr' = [thr EXCEPT ![t].pc = "get_wait",
                          ![t].at = clock, ![t].seconds = seconds,
                          ![t].cutoff = clock - seconds]
    /\ UNCHANGED <<buffer, total_messages, lock, clock, added, completed>>
    /\ UNCHANGED bufOthers

GetRecentAcquire(t) ==
    /\ thr[t].pc = "get_wait"
    /\ LockFree(t)
    /\ lock' = t
    /\ thr' = [thr EXCEPT ![t].pc = "get_read"]
    /\ UNCHANGED <<buffer, total_messages, clock, added, completed>>
    /\ UNCHANGED bufOthers

\* the list comprehension under the lock and the end of the with block;
\* `seen` notes how many messages had been appended by then
GetRecentRead(t) ==
    /\ thr[t].pc = "get_read"
    /\ thr' = [thr EXCEPT ![t].pc = "get_return",
                          ![t].result = Recent(buffer, thr[t].cutoff),
                          ![t].seen = Len(added)]
    /\ lock' = IF lock = t THEN 0 ELSE lock
    /\ UNCHANGED <<buffer, total_messages, clock, added, completed>>
    /\ UNCHANGED bufOthers

\* the caller has the list
GetRecentReturn(t) ==
    /\ thr[t].pc = "get_return"
    /\ thr' = [thr EXCEPT ![t] = ThreadIdle]
    /\ UNCHANGED <<buffer, total_messages, lock, clock, added, completed>>
    /\ UNCHANGED bufOthers

\* a thread calls flush_old(max_age_seconds)
FlushOldCall(t, max_age_seconds) ==
    /\ thr[t].pc = "idle"
    /\ thr' = [thr EXCEPT ![t].pc = "flush_wait",
                          ![t].at = clock, ![t].seconds = max_age_seconds,
                          ![t].cutoff = clock - max_age_seconds]
    /\ UNCHANGED <<buffer, total_messages, lock, clock, added, completed>>
    /\ UNCHANGED bufOthers

FlushOldAcquire(t) ==
    /\ thr[t].pc = "flush_wait"
    /\ LockFree(t)
    /\ lock' = t
    /\ thr' = [thr EXCEPT ![t].pc = "flush_loop"]
    /\ UNCHANGED <<buffer, total_messages, clock, added, completed>>
    /\ UNCHANGED bufOthers

\* the while loop under the lock, and the return
FlushOldReturn(t) ==
    /\ thr[t].pc = "flush_loop"
    /\ buffer' = FlushOld(buffer, thr[t].cutoff)
    /\ lock' = IF lock = t THEN 0 ELSE lock
    /\ thr' = [thr EXCEPT ![t] = ThreadIdle]
    /\ UNCHANGED <<total_messages, clock, added, completed>>
    /\ UNCHANGED bufOthers

\* add and get_recent, the calls the program makes
AddGetNext ==
    \/ Tick
    \/ \E t \in Threads, ts \in TimeStamps : AddCall(t, ts)
    \/ \E t \in Threads : AddAcquire(t)
    \/ \E t \in Threads : AddAppend(t)
    \/ \E t \in Threads : AddLoad(t)
    \/ \E t \in Threads : AddStore(t)
    \/ \E t \in Threads : AddReturn(t)
    \/ \E t \in Threads, seconds \in Windows : GetRecentCall(t, seconds)
    \/ \E t \in Threads : GetRecentAcquire(t)
    \/ \E t \in Threads : GetRecentRead(t)
    \/ \E t \in Threads : GetRecentReturn(t)

AddGetSpec == Init /\ [][AddGetNext]_vars

\* every method of the StreamBuffer
BufferNext ==
    \/ AddGetNext
    \/ \E t \in Threads, max_age_seconds \in Windows :
          FlushOldCall(t, max_age_seconds)
    \/ \E t \in Threads : FlushOldAcquire(t)
    \/ \E t \in Threads : FlushOldReturn(t)

BufferSpec == Init /\ [][BufferNext]_vars

\* ------------------------------------------------------------------------
\* Properties of the alert manager
\* ------------------------------------------------------------------------
\* the label set of a label dict, whatever the order of its items
LabelSet(labels) == {labels[n] : n \in 1..Len(labels)}

SameKey(i, j) ==
    /\ instances[i].alert_id = instances[j].alert_id
    /\ LabelSet(instances[i].labels) = LabelSet(instances[j].labels)

RulesOf(i) == AlertById(instances[i].alert_id).escalation_rules

\* C1: every firing episode of a key (condition false, then true, then
\* false) has exactly one fire notification and, once the condition went
\* false again, exactly one resolve notification with resolved_at >
\* fired_at; a later true evaluation of the key makes a new instance, fired
\* after the earlier one was resolved and moved to the history.
C1_AlertLifecycle ==
    \A i \in 1..Len(instances) :
        /\ Len(notifications[i].fire) = 1
        /\ notifications[i].resolve = IF Resolved(i) THEN 1 ELSE 0
        /\ Resolved(i) => instances[i].resolved_at > instances[i].fired_at
        /\ InHistory(i) => Resolved(i) /\ ~IsActive(i)
        /\ \A j \in 1..Len(instances) :
              (i < j /\ SameKey(i, j)) =>
                  /\ InHistory(i)
                  /\ instances[j].fired_at > instances[i].resolved_at

C1_Witness ==
    \E i, j \in 1..Len(instances) :
        /\ i < j /\ SameKey(i, j)
        /\ InHistory(i) /\ notifications[i].resolve = 1
        /\ IsActive(j) /\ ev.pc = "idle"

UniquePerLabelSet ==
    \A m, n \in 1..Len(active_alerts) :
        m # n => ~SameKey(active_alerts[m].inst, active_alerts[n].inst)

\* C2: active_alerts never holds two instances of one (alert_id, label set),
\* and an evaluate_alert call whose condition is true while an instance of
\* its alert_id and label set is active changes nothing but that instance's
\* current_value: no new instance, no notification, no escalation task, and
\* every other instance as it was.
C2_ExistingInstanceOnlyUpdated ==
    [][ /\ UniquePerLabelSet'
        /\ \A j \in 1..Len(instances) :
             (ev.pc = "idle" /\ IsActive(j)) =>
                LET alert == AlertById(instances[j].alert_id) IN
                \A value \in Values, labels \in LabelDicts :
                   ( /\ EvaluateCondition(value, alert.threshold,
                                          alert.comparison)
                     /\ LabelSet(labels) = LabelSet(instances[j].labels)
                     /\ EvaluateAlert(alert, labels, value) )
                   => /\ instances' =
                            [instances EXCEPT ![j].current_value = value]
                      /\ UNCHANGED <<active_alerts, alert_history,
                                     escalation_timers, tasks,
                                     notifications, ev>>
      ]_vars

C2_Witness ==
    \E i, j \in 1..Len(instances) :
        /\ i # j /\ IsActive(i) /\ IsActive(j)
        /\ instances[i].alert_id = instances[j].alert_id
        /\ instances[j].current_value # notifications[j].fire[1]
        /\ Len(instances[j].labels) = 2
        /\ ev.pc = "idle"

\* C3: when the resolve path of evaluate_alert returns, the instance has
\* resolved_at set, is out of active_alerts, is in alert_history, and
\* escalation_timers has no entry for its key, its task being cancelled.
C3_ResolveCompletes ==
    [][ \A i \in 1..MaxInst :
          (ev.pc = "resolving" /\ ev.inst = i /\ ev'.pc = "idle") =>
             /\ Resolved(i)'
             /\ ~IsActive(i)'
             /\ ~KeyIn(active_alerts, instances[i].instance_id)'
             /\ InHistory(i)'
             /\ ~KeyIn(escalation_timers, instances[i].instance_id)'
             /\ tasks'[i].state \notin {"sleeping", "sending"}
      ]_vars

C3_Witness ==
    \E i \in 1..Len(instances) :
        /\ InHistory(i) /\ Resolved(i) /\ ~IsActive(i)
        /\ tasks[i].state = "cancelled"
        /\ ~KeyIn(escalation_timers, instances[i].instance_id)

\* C4: the escalation task never raises escalation_level and never sends an
\* escalation notification for an instance whose resolved_at is set or
\* whose acknowledged flag is true.
C4_NoEscalationOnceResolvedOrAcknowledged ==
    [][ \A i \in 1..Len(instances) :
          (Resolved(i) \/ instances[i].acknowledged) =>
             /\ instances'[i].escalation_level =
                   instances[i].escalation_level
             /\ notifications'[i].escalated = notifications[i].escalated
      ]_vars

\* C5: once an instance is acknowledged, which is before the delay of the
\* rule its task then waits for has elapsed, its escalation_level stays and
\* no further escalation notification is sent, also when the acknowledge
\* came while the fire notification was in flight and the task was created
\* afterwards.
C5_AcknowledgedNeverEscalates ==
    [][ \A i \in 1..Len(instances) :
          instances[i].acknowledged =>
             /\ instances'[i].escalation_level =
                   instances[i].escalation_level
             /\ notifications'[i].escalated = notifications[i].escalated
             /\ tasks'[i].state # "sending" \/ tasks[i].state = "sending"
      ]_vars

\* the instance was acknowledged during its fire notification: its task
\* was created after the acknowledge, woke up and ended without escalating
C5_Witness ==
    \E i \in 1..Len(instances) :
        /\ instances[i].acknowledged /\ IsActive(i) /\ ~Resolved(i)
        /\ tasks[i].state = "done"
        /\ instances[i].escalation_level = 0
        /\ notifications[i].escalated = <<>>

C7_EscalationRunsThroughAllRules ==
    \A i \in 1..Len(instances) :
        ( /\ tasks[i].state = "done"
          /\ IsActive(i) /\ ~Resolved(i) /\ ~instances[i].acknowledged )
        => /\ instances[i].escalation_level = Len(RulesOf(i))
           /\ Len(notifications[i].escalated) = Len(RulesOf(i))
           /\ \A k \in 1..Len(RulesOf(i)) :
                 notifications[i].escalated[k] =
                    [level |-> k,
                     channels |-> RuleChannels(RulesOf(i)[k],
                                     AlertById(instances[i].alert_id))]

\* C8: a failed POST of _fire_alert leaves the new instance active with its
\* escalation task scheduled, and a failed POST of _resolve_alert still
\* removes the instance from active_alerts, appends it to the history and
\* cancels its escalation timer.
C8_SendFailureKeepsTransition ==
    [][ \A i \in 1..MaxInst :
          /\ (ev.inst = i /\ FireAlertReturn("post_failed")) =>
                /\ IsActive(i)'
                /\ RulesOf(i) # <<>> =>
                      /\ tasks'[i] = [state |-> "sleeping", rule |-> 1]
                      /\ KeyIn(escalation_timers, instances[i].instance_id)'
                      /\ DictGet(escalation_timers,
                                 instances[i].instance_id)' = i
          /\ (ev.inst = i /\ ResolveAlertReturn("post_failed")) =>
                /\ ~IsActive(i)'
                /\ InHistory(i)'
                /\ ~KeyIn(escalation_timers, instances[i].instance_id)'
                /\ tasks'[i].state \notin {"sleeping", "sending"}
      ]_vars

\* the only instance had both of its POSTs fail, had a task, and is in the
\* history
C8_Witness ==
    /\ Len(instances) = 1
    /\ errors = {"firing", "resolving"}
    /\ InHistory(1) /\ ~IsActive(1)
    /\ tasks[1].state = "cancelled"

\* ------------------------------------------------------------------------
\* Properties of the StreamBuffer
\* ------------------------------------------------------------------------
\* C9: under every interleaving of add, get_recent and flush_old the buffer
\* holds at most max_size messages, and total_messages counts the add calls
\* that have made their increment: it equals the number of returned add
\* calls whenever no add is between its increment and its return.
C9_BufferBoundAndCount ==
    /\ Len(buffer) <= max_size
    /\ total_messages =
          completed + Cardinality({t \in Threads :
                                      thr[t].pc = "add_release"})
    /\ (\A t \in Threads : thr[t].pc \notin {"add_append", "add_load",
                                             "add_store", "add_release"})
          => total_messages = completed /\ completed = Len(added)

\* an add at capacity is in its critical section while a reader waits
C9_Witness ==
    \E t, u \in Threads :
        /\ thr[t].pc = "add_release" /\ thr[u].pc = "get_wait"
        /\ lock = t
        /\ Len(added) > max_size /\ Len(buffer) = max_size
        /\ total_messages = Len(added)

\* the last n elements of a sequence
LastN(s, n) == IF Len(s) <= n THEN s ELSE SubSeq(s, Len(s) - n + 1, Len(s))

\* C10: the list get_recent(window) returns is, in append order, exactly
\* the messages among the last max_size appended whose timestamp is >= the
\* time of the call minus the window; no evicted message is in it; and with
\* a window that reaches before every timestamp, after max_size + 1 adds
\* (capacity 3: a, b, c, d) it is all of them but the first (b, c, d).
C10_GetRecentExact ==
    \A t \in Threads :
        thr[t].pc = "get_return" =>
            LET appended == SubSeq(added, 1, thr[t].seen) IN
            /\ thr[t].result =
                  SelectSeq(LastN(appended, max_size),
                            LAMBDA m : m.timestamp >=
                                          thr[t].at - thr[t].seconds)
            /\ \A k \in 1..Len(thr[t].result) :
                  thr[t].result[k].id > thr[t].seen - max_size
            /\ (thr[t].seconds = Forever /\ thr[t].seen = max_size + 1) =>
                  thr[t].result = Tail(appended)

C10_Witness ==
    \E t \in Threads :
        /\ thr[t].pc = "get_return"
        /\ thr[t].seconds = Forever
        /\ thr[t].seen = max_size + 1
        /\ Len(thr[t].result) = max_size
        /\ thr[t].result[1].id = 2
        /\ thr[t].result[max_size].id = max_size + 1

\* C11: when flush_old(max_age) returns, the buffer holds no message with
\* timestamp < (time of the call) - max_age, whatever the order of the
\* timestamps in the buffer, and every message with timestamp >= that
\* cutoff that was in the buffer is still there.
C11_FlushRemovesAllOld ==
    [][\A t \in Threads :
          FlushOldReturn(t) =>
              /\ \A k \in 1..Len(buffer') :
                    buffer'[k].timestamp >= thr[t].at - thr[t].seconds
              /\ \A k \in 1..Len(buffer) :
                    buffer[k].timestamp >= thr[t].at - thr[t].seconds
                       => \E n \in 1..Len(buffer') : buffer'[n] = buffer[k]]_vars

\* the half of C11 that the loop does keep: flush_old removes no message
\* with timestamp >= cutoff
FlushKeepsRecent ==
    [][\A t \in Threads :
          FlushOldReturn(t) =>
              \A k \in 1..Len(buffer) :
                  buffer[k].timestamp >= thr[t].at - thr[t].seconds
                     => \E n \in 1..Len(buffer') : buffer'[n] = buffer[k]]_vars

\* ------------------------------------------------------------------------
\* WebSocketStreamer (services/streaming/service.py)
\* ------------------------------------------------------------------------
\* number of broadcast calls followed
MaxBroadcasts == 2

\* topic_connections.discard(websocket) for every topic
Discard(subs, c) == [T \in Topics |-> subs[T] \ {c}]

\* the finally block of websocket_endpoint: discard from the connections
\* and from every topic
EndpointCleanup(conns, subs, c) ==
    [connections |-> conns \ {c}, subscriptions |-> Discard(subs, c),
     raised |-> FALSE]

\* the finally block of register_connection: set.remove raises KeyError,
\* before the loop over the topics, when the websocket is not in the set
ServerCleanup(conns, subs, c) ==
    IF c \in conns
    THEN [connections |-> conns \ {c}, subscriptions |-> Discard(subs, c),
          raised |-> FALSE]
    ELSE [connections |-> conns, subscriptions |-> subs, raised |-> TRUE]

\* the cleanup that runs when websocket c disconnects
Cleanup(conns, subs, c) ==
    IF c \in ServerConns THEN ServerCleanup(conns, subs, c)
                         ELSE EndpointCleanup(conns, subs, c)

\* websocket_endpoint up to its receive loop: accept, connections.add
websocket_endpoint(c) ==
    /\ c \in EndpointConns
    /\ ws_state[c] = "new"
    /\ connections' = connections \cup {c}
    /\ ws_state' = [ws_state EXCEPT ![c] = "open"]
    /\ UNCHANGED <<subscriptions, reading, broadcasts>>
    /\ UNCHANGED wsOthers

\* the client sends {action: "subscribe", topic}
subscribe(c, topic) ==
    /\ c \in EndpointConns
    /\ ws_state[c] = "open"
    /\ subscriptions' = [subscriptions EXCEPT ![topic] = @ \cup {c}]
    /\ UNCHANGED <<connections, ws_state, reading, broadcasts>>
    /\ UNCHANGED wsOthers

\* the client sends {action: "unsubscribe", topic}
unsubscribe(c, topic) ==
    /\ c \in EndpointConns
    /\ ws_state[c] = "open"
    /\ subscriptions' = [subscriptions EXCEPT ![topic] = @ \ {c}]
    /\ UNCHANGED <<connections, ws_state, reading, broadcasts>>
    /\ UNCHANGED wsOthers

\* receive_text (or the confirmation send_text, or json.loads) raises:
\* the finally block of websocket_endpoint runs
websocket_endpoint_finally(c) ==
    /\ c \in EndpointConns
    /\ ws_state[c] = "open"
    /\ LET r == Cleanup(connections, subscriptions, c)
       IN /\ connections' = r.connections
          /\ subscriptions' = r.subscriptions
    /\ ws_state' = [ws_state EXCEPT ![c] = "closed"]
    /\ UNCHANGED <<reading, broadcasts>>
    /\ UNCHANGED wsOthers

\* register_connection up to `await websocket.wait_closed()`
register_connection(c) ==
    /\ c \in ServerConns
    /\ ws_state[c] = "new"
    /\ connections' = connections \cup {c}
    /\ ws_state' = [ws_state EXCEPT ![c] = "open"]
    /\ UNCHANGED <<subscriptions, reading, broadcasts>>
    /\ UNCHANGED wsOthers

\* wait_closed returns: the finally block of register_connection runs
register_connection_finally(c) ==
    /\ c \in ServerConns
    /\ ws_state[c] = "open"
    /\ LET r == Cleanup(connections, subscriptions, c)
       IN /\ connections' = r.connections
          /\ subscriptions' = r.subscriptions
    /\ ws_state' = [ws_state EXCEPT ![c] = "closed"]
    /\ UNCHANGED <<reading, broadcasts>>
    /\ UNCHANGED wsOthers

\* the peer of websocket c stops reading its socket
StopReading(c) ==
    /\ ws_state[c] = "open"
    /\ reading[c]
    /\ reading' = [reading EXCEPT ![c] = FALSE]
    /\ UNCHANGED <<connections, subscriptions, ws_state, broadcasts>>
    /\ UNCHANGED wsOthers

\* the wildcard topic routed like any other topic
Recipients_BySubscriptionOnly(topic) ==
    IF connections = {} THEN {} ELSE subscriptions[topic]

\* connections_to_notify of broadcast(message, topic); `return` when there
\* is no connection at all
Recipients(topic) ==
    IF connections = {} THEN {}
    ELSE IF topic # "all" THEN subscriptions[topic] ELSE connections

\* broadcast(message, topic) up to the await of asyncio.gather: one send
\* per connection to notify is started. The message is a dict json.dumps
\* can encode.
broadcast(topic) ==
    /\ Len(broadcasts) < MaxBroadcasts
    /\ LET to == Recipients(topic)
       IN broadcasts' = Append(broadcasts,
              [topic |-> topic, to |-> to, pending |-> to, failed |-> {}])
    /\ UNCHANGED <<connections, subscriptions, ws_state, reading>>
    /\ UNCHANGED wsOthers

\* the outcomes of conn.send(message_str) that the state of the websocket
\* allows: an open websocket whose peer reads can take the message or
\* fail, a closed one fails, and the send to an open websocket whose peer
\* does not read stays blocked
SendOutcomesOf(c) ==
    IF ws_state[c] = "closed" THEN {"failed"}
    ELSE IF reading[c] THEN {"ok", "failed"} ELSE {}

\* one conn.send of broadcast k returns or raises; gather collects the
\* exception (return_exceptions=True) and nothing else is done with it
SendReturn(k, c, outcome) ==
    /\ k \in 1..Len(broadcasts)
    /\ c \in broadcasts[k].pending
    /\ outcome \in SendOutcomesOf(c)
    /\ broadcasts' = [broadcasts EXCEPT
                         ![k].pending = @ \ {c},
                         ![k].failed = IF outcome = "ok" THEN @ ELSE @ \cup {c}]
    /\ UNCHANGED <<connections, subscriptions, ws_state, reading>>
    /\ UNCHANGED wsOthers

\* the connections that have received broadcast k
Received(k) ==
    broadcasts[k].to \ (broadcasts[k].pending \cup broadcasts[k].failed)

\* asyncio.gather, and with it broadcast k, has returned
Returned(k) == broadcasts[k].pending = {}

WsNext ==
    \/ \E c \in Conns : websocket_endpoint(c)
    \/ \E c \in Conns, topic \in Topics : subscribe(c, topic)
    \/ \E c \in Conns, topic \in Topics : unsubscribe(c, topic)
    \/ \E c \in Conns : websocket_endpoint_finally(c)
    \/ \E c \in Conns : register_connection(c)
    \/ \E c \in Conns : register_connection_finally(c)
    \/ \E c \in Conns : StopReading(c)
    \/ \E topic \in Topics : broadcast(topic)
    \/ \E k \in 1..MaxBroadcasts, c \in Conns, outcome \in {"ok", "failed"} :
          SendReturn(k, c, outcome)

WsSpec == Init /\ [][WsNext]_vars

\* every send that can return or raise eventually does (the event loop
\* runs every ready task)
WsFairSpec ==
    /\ WsSpec
    /\ \A k \in 1..MaxBroadcasts, c \in Conns :
          WF_vars(\E outcome \in {"ok", "failed"} : SendReturn(k, c, outcome))

\* ------------------------------------------------------------------------
\* Properties of the WebSocketStreamer
\* ------------------------------------------------------------------------
\* the broadcast call made by the step
NewBroadcast == broadcasts'[Len(broadcasts')]

\* C12: broadcast(message, topic) sends to every connection subscribed to
\* the topic and to every connection subscribed to "all"; so a connection
\* subscribed to "all" only is sent a broadcast on "dev1:voltage".
C12_BroadcastReachesTopicAndAll ==
    [][\A topic \in Topics :
          broadcast(topic) =>
              (subscriptions[topic] \cup subscriptions["all"])
                  \subseteq NewBroadcast.to]_vars

\* the half of C12 that holds: every subscriber of the topic is sent the
\* broadcast
BroadcastReachesTopic ==
    [][\A topic \in Topics :
          broadcast(topic) => subscriptions[topic] \subseteq NewBroadcast.to]_vars

C14_FailedSendDropsConnection ==
    [][/\ \A k \in 1..Len(broadcasts), c \in Conns :
             SendReturn(k, c, "failed") =>
                 /\ c \notin connections'
                 /\ \A T \in Topics : c \notin subscriptions'[T]
       /\ \A topic \in Topics :
             broadcast(topic) =>
                 \A k \in 1..Len(broadcasts) :
                     NewBroadcast.to \cap broadcasts[k].failed = {}]_vars

\* the sends of broadcast k that have not returned; none before the call
Pending(k) == IF k <= Len(broadcasts) THEN broadcasts[k].pending ELSE {}

\* the peer of websocket c has stopped reading and c is still open
Blocked(c) == ws_state[c] = "open" /\ ~reading[c]

\* C15: every broadcast call eventually returns, and every connection it
\* sends to other than one whose peer has stopped reading eventually
\* receives the message or sees its send fail, even when the send to some
\* subscriber never completes.
C15_BroadcastIsolated ==
    /\ \A k \in 1..MaxBroadcasts : (Len(broadcasts) >= k) ~> (Pending(k) = {})
    /\ \A k \in 1..MaxBroadcasts, c \in Conns :
          (c \in Pending(k)) ~> (c \notin Pending(k) \/ Blocked(c))

\* the half of C15 that holds: asyncio.gather runs the sends concurrently,
\* so only the send to a peer that does not read stays pending
OthersStillReceive ==
    \A k \in 1..MaxBroadcasts, c \in Conns :
        (c \in Pending(k)) ~> (c \notin Pending(k) \/ Blocked(c))

\* C16: a websocket that has disconnected is in the connection set and in
\* no topic's subscriber set, and running its disconnect cleanup once more
\* raises nothing and changes neither the connection set nor any
\* subscriber set.
C16_DisconnectCleanupIdempotent ==
    \A c \in Conns :
        ws_state[c] = "closed" =>
            /\ c \notin connections
            /\ \A T \in Topics : c \notin subscriptions[T]
            /\ LET again == Cleanup(connections, subscriptions, c)
               IN /\ ~again.raised
                  /\ again.connections = connections
                  /\ again.subscriptions = subscriptions

\* the half of C16 that holds: after the cleanup the websocket is in no set
DisconnectedIsNowhere ==
    \A c \in Conns :
        ws_state[c] = "closed" =>
            /\ c \notin connections
            /\ \A T \in Topics : c \notin subscriptions[T]

\* ------------------------------------------------------------------------
\* StreamingService: the per-message pipeline (services/streaming/service.py)
\* ------------------------------------------------------------------------
\* number of messages followed, one at a time
MaxMsgs == 11

\* len(stats_data['values']) >= 10: mean and std are computed from then on
MinSamples == 10

\* RealTimeAnalyzer.anomaly_threshold
anomaly_threshold == 3

\* the 'value' of an MQTT payload: absent, not a number ("abc"), the float
\* NaN, or a number
PayloadKinds == {"missing", "text", "nan", "num"}

\* the numbers a message carries
Readings == {1, 100}

\* float(payload['value']) raises KeyError or ValueError
ParseRaises(kind) == kind \in {"missing", "text"}

\* no except clause catches anything
ExceptException_Nothing(where) == FALSE

\* `except Exception` in `where` catches every error raised in its try block
ExceptException(where) == TRUE

\* stats_data['std'] > 0: std is computed once MinSamples values are there,
\* it is NaN as soon as one value is, and n^2 * variance = n*sumsq - sum^2
StdPositive(st) ==
    /\ st.n >= MinSamples
    /\ ~st.nan
    /\ st.n * st.sumsq - st.sum * st.sum > 0

\* stats_data['values'].append(message.value)
StatsAppend(st, kind, v) ==
    IF kind = "nan" THEN [st EXCEPT !.n = @ + 1, !.nan = TRUE]
    ELSE [st EXCEPT !.n = @ + 1, !.sum = @ + v, !.sumsq = @ + v * v]

\* z_score > anomaly_threshold, with z = |v - mean| / std, compared through
\* the squares times n^2; where the two sides are equal the rounding of the
\* floating-point operations decides
IsAnomaly(st, v) ==
    LET lhs == (st.n * v - st.sum) * (st.n * v - st.sum)
        rhs == anomaly_threshold * anomaly_threshold
                  * (st.n * st.sumsq - st.sum * st.sum)
    IN IF lhs > rhs THEN {TRUE} ELSE IF lhs < rhs THEN {FALSE} ELSE BOOLEAN

\* analyze_message on the statistics st after the append: the possible
\* analyses. is_anomaly is the Python False when std is not > 0 and a
\* numpy.bool_ when it is.
Analyses(st, kind, v) ==
    IF StdPositive(st) /\ kind = "num"
    THEN {[is_anomaly |-> b, numpy_bool |-> TRUE] : b \in IsAnomaly(st, v)}
    ELSE {[is_anomaly |-> FALSE, numpy_bool |-> FALSE]}

\* json.dumps raises TypeError on a dict that holds a numpy.bool_
JsonDumpsRaises(analysis) == analysis.numpy_bool

\* asyncio.create_task raises RuntimeError in a thread with no running
\* event loop: the MQTT callback runs in the network thread of paho
CreateTaskRaises(src) == src = "mqtt"

\* where an error that leaves a handler ends: in the except clause of
\* _on_message, or with the end of the calling thread or task
AfterEscape(src) ==
    IF src = "mqtt" /\ ExceptException("_on_message") THEN "idle" ELSE "stopped"

LogAfterEscape(src) ==
    IF src = "mqtt" /\ ExceptException("_on_message") THEN {"_on_message"} ELSE {}

\* MQTTStreamer._on_message up to the call of the handlers: the payload is
\* parsed into a StreamMessage, or the error is logged and the message
\* dropped. No range of values is checked.
on_message(kind, v) ==
    /\ pipe.pc = "idle"
    /\ received < MaxMsgs
    /\ received' = received + 1
    /\ IF ParseRaises(kind)
       THEN /\ pipe' = [NoMessage EXCEPT !.src = "mqtt", !.kind = kind,
                                        !.failed = TRUE,
                                        !.pc = AfterEscape("mqtt")]
            /\ log' = log \cup LogAfterEscape("mqtt")
            /\ UNCHANGED accepted
       ELSE /\ pipe' = [NoMessage EXCEPT !.pc = "buffer", !.src = "mqtt",
                                        !.kind = kind,
                                        !.value = IF kind = "num" THEN v ELSE 0,
                                        !.steps = <<"validate">>]
            /\ accepted' = accepted + 1
            /\ UNCHANGED log
    /\ UNCHANGED <<metric_stats, redis, buffer, total_messages, added, completed>>
    /\ UNCHANGED pipeOthers

\* simulate_data_stream builds a StreamMessage itself and calls the two
\* handlers directly
simulate_data_stream(v) ==
    /\ pipe.pc = "idle"
    /\ received < MaxMsgs
    /\ received' = received + 1
    /\ accepted' = accepted + 1
    /\ pipe' = [NoMessage EXCEPT !.pc = "buffer", !.src = "simulate",
                                !.kind = "num", !.value = v]
    /\ UNCHANGED <<metric_stats, redis, log, buffer, total_messages, added,
                   completed>>
    /\ UNCHANGED pipeOthers

RedisOutcomes == {"ok", "failed"}

\* _handle_mqtt_message: stream_buffer.add, then _store_in_redis, which
\* logs the error of a failed Redis command itself
_handle_mqtt_message(outcome) ==
    /\ pipe.pc = "buffer"
    /\ LET m == [id |-> Len(added) + 1, timestamp |-> clock]
       IN /\ buffer' = DequeAppend(buffer, m, max_size)
          /\ added' = Append(added, m)
    /\ total_messages' = total_messages + 1
    /\ completed' = completed + 1
    /\ IF outcome = "ok"
       THEN /\ redis' = [redis EXCEPT !.ts = @ + 1]
            /\ pipe' = [pipe EXCEPT !.pc = "analyzer",
                                    !.steps = @ \o <<"add", "persist">>]
            /\ UNCHANGED log
       ELSE /\ UNCHANGED redis
            /\ IF ExceptException("_store_in_redis")
               THEN /\ pipe' = [pipe EXCEPT !.pc = "analyzer",
                                            !.steps = @ \o <<"add">>,
                                            !.failed = TRUE]
                    /\ log' = log \cup {"_store_in_redis"}
               ELSE /\ pipe' = [pipe EXCEPT !.pc = AfterEscape(pipe.src),
                                            !.steps = @ \o <<"add">>,
                                            !.failed = TRUE]
                    /\ log' = log \cup LogAfterEscape(pipe.src)
    /\ UNCHANGED <<metric_stats, received, accepted>>
    /\ UNCHANGED pipeOthers

\* what is left of _handle_mqtt_analysis after analyze_message returned
\* analysis a: create_task of the broadcast, then _store_anomaly when
\* is_anomaly. The result: the steps done, the errors logged, whether the
\* anomaly was pushed on the Redis list, and where the handler ends.
AfterAnalysis(src, a, outcome) ==
    IF CreateTaskRaises(src)
    THEN IF ExceptException("_handle_mqtt_analysis")
         THEN [steps |-> <<"score">>, logged |-> {"_handle_mqtt_analysis"},
               pushed |-> FALSE, failed |-> TRUE, pc |-> "idle"]
         ELSE [steps |-> <<"score">>, logged |-> LogAfterEscape(src),
               pushed |-> FALSE, failed |-> TRUE, pc |-> AfterEscape(src)]
    ELSE IF ~a.is_anomaly
    THEN [steps |-> <<"score", "broadcast">>, logged |-> {},
          pushed |-> FALSE, failed |-> FALSE, pc |-> "idle"]
    ELSE IF ~JsonDumpsRaises(a) /\ outcome = "ok"
    THEN [steps |-> <<"score", "broadcast", "anomaly">>, logged |-> {},
          pushed |-> TRUE, failed |-> FALSE, pc |-> "idle"]
    ELSE IF ExceptException("_store_anomaly")
    THEN [steps |-> <<"score", "broadcast">>, logged |-> {"_store_anomaly"},
          pushed |-> FALSE, failed |-> TRUE, pc |-> "idle"]
    ELSE IF ExceptException("_handle_mqtt_analysis")
    THEN [steps |-> <<"score", "broadcast">>,
          logged |-> {"_handle_mqtt_analysis"},
          pushed |-> FALSE, failed |-> TRUE, pc |-> "idle"]
    ELSE [steps |-> <<"score", "broadcast">>, logged |-> LogAfterEscape(src),
          pushed |-> FALSE, failed |-> TRUE, pc |-> AfterEscape(src)]

\* _handle_mqtt_analysis: analyze_message updates the rolling statistics
\* and scores the message; the rest as in AfterAnalysis
_handle_mqtt_analysis(outcome) ==
    /\ pipe.pc = "analyzer"
    /\ LET st == StatsAppend(metric_stats, pipe.kind, pipe.value)
       IN /\ metric_stats' = st
          /\ \E a \in Analyses(st, pipe.kind, pipe.value) :
                LET r == AfterAnalysis(pipe.src, a, outcome)
                IN /\ pipe' = [pipe EXCEPT !.pc = r.pc,
                                           !.steps = @ \o r.steps,
                                           !.is_anomaly = a.is_anomaly,
                                           !.failed = @ \/ r.failed]
                   /\ log' = log \cup r.logged
                   /\ redis' = [redis EXCEPT !.anomalies =
                                   IF r.pushed THEN @ + 1 ELSE @]
    /\ UNCHANGED <<received, accepted, buffer, total_messages, added, completed>>
    /\ UNCHANGED pipeOthers

PipeNext ==
    \/ \E kind \in PayloadKinds, v \in Readings : on_message(kind, v)
    \/ \E v \in Readings : simulate_data_stream(v)
    \/ \E outcome \in RedisOutcomes : _handle_mqtt_message(outcome)
    \/ \E outcome \in RedisOutcomes : _handle_mqtt_analysis(outcome)

PipeSpec == Init /\ [][PipeNext]_vars

\* ------------------------------------------------------------------------
\* Properties of the per-message pipeline
\* ------------------------------------------------------------------------
\* step s has been done for the message being handled
Done(s) == \E i \in 1..Len(pipe.steps) : pipe.steps[i] = s

\* whenever step b has been done, step a was done before it
Before(a, b) ==
    \A j \in 1..Len(pipe.steps) :
        pipe.steps[j] = b => \E i \in 1..(j - 1) : pipe.steps[i] = a

\* C17: for every message the steps come in the order validate, buffer
\* add, statistics update and scoring, persistence, broadcast: the message
\* is persisted only after it was scored and broadcast only after it was
\* persisted.
C17_PipelineOrder ==
    /\ Before("validate", "add")
    /\ Before("add", "score")
    /\ Before("score", "persist")
    /\ Before("persist", "broadcast")

\* the order the code keeps: buffer add, persistence, scoring, broadcast,
\* anomaly record
CodeOrder ==
    /\ Before("add", "persist")
    /\ Before("add", "score")
    /\ Before("score", "broadcast")
    /\ Before("broadcast", "anomaly")
    /\ Done("persist") /\ Done("score") => Before("persist", "score")

\* C18: a message that fails validation (value missing, not a number, or
\* outside every range of values, as NaN is) is never added to the buffer,
\* never scored into the rolling statistics, never persisted and never
\* broadcast.
C18_InvalidNeverEnters ==
    pipe.kind \in {"missing", "text", "nan"} =>
        ~(Done("add") \/ Done("score") \/ Done("persist") \/ Done("broadcast"))

\* the half of C18 that holds: a payload without a value or with a value
\* that is not a number is dropped before the handlers
MalformedRejected ==
    pipe.kind \in {"missing", "text"} => pipe.steps = <<>> /\ pipe.pc = "idle"

\* C19: errors raised while a message is buffered, persisted, scored or
\* broadcast never stop the pipeline: between two messages every message
\* that was accepted so far is in the count and (the last max_size of them)
\* in the buffer, and has been scored into the rolling statistics.
C19_ErrorsDoNotStopPipeline ==
    /\ pipe.pc # "stopped"
    /\ pipe.pc = "idle" =>
          /\ total_messages = accepted
          /\ Len(added) = accepted
          /\ buffer = LastN(added, max_size)
          /\ metric_stats.n = accepted

\* a message has gone through both handlers without error after the
\* broadcast of an earlier one raised and the Redis write of one failed
C19_Witness ==
    /\ pipe.pc = "idle"
    /\ {"_handle_mqtt_analysis", "_store_in_redis"} \subseteq log
    /\ ~pipe.failed
    /\ pipe.steps = <<"add", "persist", "score", "broadcast">>
    /\ accepted > max_size

\* C20: once the handlers are done with a message whose analysis has
\* is_anomaly = true, an anomaly record of it has been stored.
C20_AnomalyAlwaysStored ==
    (pipe.pc = "idle" /\ pipe.is_anomaly) => Done("anomaly")

\* what the code does instead: no anomaly record is ever stored
NoAnomalyEverStored == redis.anomalies = 0

\* a message was found anomalous
AnomalyFound == pipe.pc = "idle" /\ pipe.is_anomaly

\* ------------------------------------------------------------------------
\* RealTimeAnalyzer.analyze_message
\* ------------------------------------------------------------------------

\* the analyze_message calls that are followed
MaxCalls == 12

\* the calls among them for the key "dev1:current"
MaxCurrentCalls == 2

\* deque(maxlen=1000), scaled down
maxlen == 11

\* the last values linregress is run on
TrendSamples == 20

\* a run of voltage readings that ends with a jump
Scenario == <<230, 231, 229, 230, 232, 231, 230, 229, 231, 230, 500>>

ScenarioValues == {Scenario[i] : i \in 1..Len(Scenario)}

IsPrefix(s, t) == Len(s) <= Len(t) /\ s = SubSeq(t, 1, Len(s))

\* the values fed to a key: any readings, or the scenario from its start
CanFeed(k, v) == v \in Readings \/ IsPrefix(Append(fed[k], v), Scenario)

TotalCalls == Len(fed["dev1:voltage"]) + Len(fed["dev1:current"])

\* whether one more call for key k is followed
CanCall(k) ==
    /\ TotalCalls < MaxCalls
    /\ k = "dev1:current" => Len(fed[k]) < MaxCurrentCalls

RECURSIVE Sum(_)
Sum(values) == IF values = <<>> THEN 0 ELSE Head(values) + Sum(Tail(values))

RECURSIVE SumSq(_)
SumSq(values) ==
    IF values = <<>> THEN 0
    ELSE Head(values) * Head(values) + SumSq(Tail(values))

\* np.mean(values): sum / n
MeanOf(values) == [sum |-> Sum(values), n |-> Len(values)]

\* np.std(values), the population standard deviation
\* sqrt(mean((x - mean)^2)) = sqrt(n * sumsq - sum^2) / n
StdOf(values) ==
    [nvar |-> Len(values) * SumSq(values) - Sum(values) * Sum(values),
     n |-> Len(values)]

\* mean and std are never computed
UpdateStats_Never(st, values) == st

\* mean and std are computed from the first value on
UpdateStats_Always(st, values) ==
    [mean |-> MeanOf(values), std |-> StdOf(values)]

\* lines 105-108: mean and std are computed from the values once there
\* are MinSamples of them, and left as they are before
UpdateStats(st, values) ==
    IF Len(values) >= MinSamples
    THEN [mean |-> MeanOf(values), std |-> StdOf(values)]
    ELSE st

RECURSIVE GCD(_, _)
GCD(a, b) == IF b = 0 THEN a ELSE GCD(b, a % b)

\* the fraction num / den in lowest terms
Fraction(num, den) ==
    [num |-> num \div GCD(num, den), den |-> den \div GCD(num, den)]

\* lines 111-116: anomaly_score = abs((value - mean) / std) when std > 0,
\* else 0.0. With mean = sum / n and std = sqrt(nvar) / n the real number is
\* the square root of the fraction sq; the float computed for it lies
\* within rounding of it, which matters where it is compared with the
\* threshold: there err tells on which side the float lies.
Scores(st, v) ==
    IF st.std.nvar > 0
    THEN LET d == v * st.mean.n - st.mean.sum
             g == GCD(st.std.n, st.mean.n)
             p == st.std.n \div g
             q == st.mean.n \div g
             sq == Fraction(d * d * p * p, q * q * st.std.nvar)
         IN {[num |-> sq.num, den |-> sq.den, err |-> e] :
                e \in IF sq.num = anomaly_threshold * anomaly_threshold
                                     * sq.den
                      THEN {-1, 0, 1} ELSE {0}}
    ELSE {ZeroScore}

\* score > threshold, for a threshold >= 0
Exceeds(score, threshold) ==
    \/ score.num > threshold * threshold * score.den
    \/ /\ score.num = threshold * threshold * score.den
       /\ score.err = 1

\* is_anomaly = z_score >= anomaly_threshold
AnomalyOf_AtLeast(st, score) ==
    /\ st.std.nvar > 0
    /\ score.num >= anomaly_threshold * anomaly_threshold * score.den

\* line 117 (and line 111 when std is not > 0)
AnomalyOf(st, score) ==
    IF st.std.nvar > 0 THEN Exceeds(score, anomaly_threshold) ELSE FALSE

RECURSIVE SumXY(_, _)
SumXY(values, i) ==
    IF values = <<>> THEN 0
    ELSE i * Head(values) + SumXY(Tail(values), i + 1)

\* lines 119-125: linregress of the last TrendSamples values against
\* 0, 1, 2, ...: with n times the covariances cxy, cxx, cyy the slope has
\* the sign of cxy and r^2 = cxy^2 / (cxx * cyy), r = 0 for constant values;
\* abs(r) > 0.7 is decided by rounding where r^2 is 0.49
Trend(values) ==
    IF Len(values) >= TrendSamples
    THEN LET recent == LastN(values, TrendSamples)
             n == Len(recent)
             xs == [i \in 1..n |-> i - 1]
             cxy == n * SumXY(recent, 0) - Sum(xs) * Sum(recent)
             cxx == n * SumSq(xs) - Sum(xs) * Sum(xs)
             cyy == n * SumSq(recent) - Sum(recent) * Sum(recent)
             trending == IF cxy > 0 THEN "increasing" ELSE "decreasing"
         IN IF 100 * cxy * cxy > 49 * cxx * cyy THEN {trending}
            ELSE IF 100 * cxy * cxy < 49 * cxx * cyy \/ cyy = 0
            THEN {"stable"}
            ELSE {trending, "stable"}
    ELSE {"stable"}

\* the dict analyze_message returns (without analysis_timestamp)
Result(k, v, st, score, trend) ==
    [key |-> k, value |-> v, is_anomaly |-> AnomalyOf(st, score),
     anomaly_score |-> score, trend |-> trend,
     mean |-> st.mean, std |-> st.std]

\* analyze_message(message) run from its first line to its return
analyze_message(k, v) ==
    /\ CanCall(k)
    /\ CanFeed(k, v)
    /\ \A t \in AnThreads : call[t].pc = "idle"
    /\ LET values == DequeAppend(windows[k], v, maxlen)
           st == UpdateStats(stats[k], values)
       IN /\ windows' = [windows EXCEPT ![k] = values]
          /\ stats' = [stats EXCEPT ![k] = st]
          /\ fed' = [fed EXCEPT ![k] = Append(@, v)]
          /\ \E score \in Scores(st, v), trend \in Trend(values) :
                last_analysis' = Result(k, v, st, score, trend)
    /\ UNCHANGED call
    /\ UNCHANGED anOthers

AnalyzerNext ==
    \E k \in Keys, v \in Readings \cup ScenarioValues : analyze_message(k, v)

AnalyzerSpec == Init /\ [][AnalyzerNext]_vars

\* ------------------------------------------------------------------------
\* Properties of analyze_message
\* ------------------------------------------------------------------------

\* the key's window as the last call left it
LastWindow == windows[last_analysis.key]

Called == last_analysis # NoAnalysis

\* C21: analyze_message reports anomaly_score = |value - mean| / std and
\* is_anomaly = (anomaly_score > 3.0) when std > 0, and score 0 with
\* is_anomaly false when std is 0, where mean and std are the rolling mean
\* and standard deviation of the message's key after the value has been
\* appended to its window: those of the window once it holds MinSamples
\* values, 0 before. (The square of |value - mean| / std is compared, as a
\* fraction of integers: n^2 * (value - mean)^2 over n^2 * std^2.)
C21_ScoreFormula ==
    Called =>
       LET a == last_analysis
           n == Len(LastWindow)
           S == Sum(LastWindow)
           Q == SumSq(LastWindow)
           var == n * Q - S * S
       IN /\ a.mean = stats[a.key].mean
          /\ a.std = stats[a.key].std
          /\ IF n >= MinSamples /\ var > 0
             THEN /\ [num |-> a.anomaly_score.num,
                      den |-> a.anomaly_score.den]
                        = Fraction((n * a.value - S) * (n * a.value - S), var)
                  /\ a.is_anomaly = Exceeds(a.anomaly_score, anomaly_threshold)
             ELSE /\ a.anomaly_score = ZeroScore
                  /\ a.is_anomaly = FALSE

\* a call on a window of at least MinSamples values that found a score
\* above the threshold
C21_Witness ==
    /\ Called
    /\ Len(LastWindow) >= MinSamples
    /\ last_analysis.is_anomaly
    /\ last_analysis.anomaly_score.num
          > anomaly_threshold * anomaly_threshold
               * last_analysis.anomaly_score.den

\* C22: when a key is fed 230, 231, 229, 230, 232, 231, 230, 229, 231, 230
\* and then 500, the analysis of the 11th message has is_anomaly true with a
\* score above 3.0, and none of the first ten is reported as an anomaly.
C22_ScenarioJumpFlagged ==
    LET f == fed["dev1:voltage"]
        a == last_analysis
    IN (Called /\ a.key = "dev1:voltage" /\ IsPrefix(f, Scenario)) =>
          IF Len(f) = Len(Scenario)
          THEN /\ a.is_anomaly
               /\ a.anomaly_score.num > 3 * 3 * a.anomaly_score.den
          ELSE ~a.is_anomaly

\* the 11th message of the scenario has been analysed
C22_Witness ==
    /\ fed["dev1:voltage"] = Scenario
    /\ Called
    /\ last_analysis.key = "dev1:voltage"
    /\ last_analysis.value = 500

\* C23: while a key has been fed fewer than 10 values its standard
\* deviation is 0 and no anomaly judgement is made: each of the first nine
\* messages of a key is reported with is_anomaly false and score 0,
\* whatever its value.
C23_NoJudgementBelowTen ==
    /\ \A k \in Keys : Len(fed[k]) < 10 => stats[k].std = ZeroStd
    /\ (Called /\ Len(fed[last_analysis.key]) < 10) =>
          /\ last_analysis.is_anomaly = FALSE
          /\ last_analysis.anomaly_score = ZeroScore
          /\ last_analysis.std = ZeroStd

\* the ninth message of a key whose values differ has been analysed
C23_Witness ==
    /\ Called
    /\ Len(fed[last_analysis.key]) = 9
    /\ StdOf(LastWindow).nvar > 0
    /\ last_analysis.value = 100

\* two means, as fractions sum / n, are the same number
SameMean(a, b) == a.sum * b.n = b.sum * a.n

\* two standard deviations, as sqrt(nvar) / n, are the same number
SameStd(a, b) == a.nvar * b.n * b.n = b.nvar * a.n * a.n

\* C24: after every update the stored mean and std of a key are the
\* population mean and standard deviation of exactly the current window,
\* which is the last min(n, maxlen) values fed to that key (the standard
\* deviation being 0 below 10 values); values of other keys and values that
\* have dropped out of the window have no influence.
C24_StatsAreWindowStats ==
    \A k \in Keys :
       fed[k] # <<>> =>
          /\ windows[k] = LastN(fed[k], maxlen)
          /\ SameMean(stats[k].mean, MeanOf(windows[k]))
          /\ IF Len(windows[k]) < 10
             THEN stats[k].std = ZeroStd
             ELSE SameStd(stats[k].std, StdOf(windows[k]))

\* what holds: the window is the last maxlen values of the key, and from
\* the 10th value on the stored mean and std are those of the window
StatsAreWindowStatsFromTen ==
    \A k \in Keys :
       /\ windows[k] = LastN(fed[k], maxlen)
       /\ IF Len(windows[k]) < MinSamples
          THEN stats[k] = [mean |-> ZeroMean, std |-> ZeroStd]
          ELSE stats[k] = [mean |-> MeanOf(windows[k]),
                           std |-> StdOf(windows[k])]

\* a value has dropped out of a window
WindowFull == \E k \in Keys : Len(fed[k]) > maxlen

\* ------------------------------------------------------------------------
\* analyze_message called from two threads: the network thread of the MQTT
\* client (_on_message -> _handle_mqtt_analysis) and the event loop thread
\* (simulate_data_stream -> _handle_mqtt_analysis). RealTimeAnalyzer has no
\* lock; a thread switch can happen between any two statements.
\* ------------------------------------------------------------------------

\* the calls of the two threads that are followed
MaxRaceCalls == 11

\* line 104: stats_data['values'].append(message.value)
AnalyzeAppend(t, k, v) ==
    /\ call[t].pc = "idle"
    /\ CanCall(k)
    /\ TotalCalls < MaxRaceCalls
    /\ windows' = [windows EXCEPT ![k] = DequeAppend(@, v, maxlen)]
    /\ fed' = [fed EXCEPT ![k] = Append(@, v)]
    /\ call' = [call EXCEPT ![t] = [pc |-> "len", key |-> k, value |-> v,
                                    values |-> <<>>]]
    /\ UNCHANGED <<stats, last_analysis>>
    /\ UNCHANGED anOthers

\* lines 105-106: if len(stats_data['values']) >= 10:
\*                    values = list(stats_data['values'])
AnalyzeSnapshot(t) ==
    /\ call[t].pc = "len"
    /\ IF Len(windows[call[t].key]) >= MinSamples
       THEN call' = [call EXCEPT ![t].pc = "mean",
                                 ![t].values = windows[call[t].key]]
       ELSE call' = [call EXCEPT ![t].pc = "score"]
    /\ UNCHANGED <<windows, stats, fed, last_analysis>>
    /\ UNCHANGED anOthers

\* line 107: stats_data['mean'] = np.mean(values)
AnalyzeMean(t) ==
    /\ call[t].pc = "mean"
    /\ stats' = [stats EXCEPT ![call[t].key].mean = MeanOf(call[t].values)]
    /\ call' = [call EXCEPT ![t].pc = "std"]
    /\ UNCHANGED <<windows, fed, last_analysis>>
    /\ UNCHANGED anOthers

\* line 108: stats_data['std'] = np.std(values)
AnalyzeStd(t) ==
    /\ call[t].pc = "std"
    /\ stats' = [stats EXCEPT ![call[t].key].std = StdOf(call[t].values)]
    /\ call' = [call EXCEPT ![t].pc = "score"]
    /\ UNCHANGED <<windows, fed, last_analysis>>
    /\ UNCHANGED anOthers

\* lines 111-134: the score, the trend and the returned dict
AnalyzeReturn(t) ==
    /\ call[t].pc = "score"
    /\ LET k == call[t].key
           v == call[t].value
       IN \E score \in Scores(stats[k], v), trend \in Trend(windows[k]) :
             last_analysis' = Result(k, v, stats[k], score, trend)
    /\ call' = [call EXCEPT ![t] = NoCall]
    /\ UNCHANGED <<windows, stats, fed>>
    /\ UNCHANGED anOthers

RaceNext ==
    \/ \E t \in AnThreads, k \in Keys, v \in Readings : AnalyzeAppend(t, k, v)
    \/ \E t \in AnThreads : AnalyzeSnapshot(t)
    \/ \E t \in AnThreads : AnalyzeMean(t)
    \/ \E t \in AnThreads : AnalyzeStd(t)
    \/ \E t \in AnThreads : AnalyzeReturn(t)

RaceSpec == Init /\ [][RaceNext]_vars

\* the window of key k when j values had been fed to it
WindowAt(k, j) == LastN(SubSeq(fed[k], 1, j), maxlen)

\* C25: when analyze_message runs concurrently for the same key, the
\* values enter the window in arrival order, and the mean and std stored
\* when a call that computed them returns are both those of one and the
\* same window snapshot (the window as it was at some moment since it held
\* MinSamples values).
C25_ConcurrentStatsConsistent ==
    [][\A t \in AnThreads :
          (AnalyzeReturn(t) /\ call[t].values # <<>>) =>
             LET k == call[t].key
             IN /\ windows[k] = LastN(fed[k], maxlen)
                /\ \E j \in MinSamples..Len(fed[k]) :
                      /\ SameMean(stats[k].mean, MeanOf(WindowAt(k, j)))
                      /\ SameStd(stats[k].std, StdOf(WindowAt(k, j)))]_vars

\* what holds: the values are in the window in the order of their appends
ArrivalOrder == \A k \in Keys : windows[k] = LastN(fed[k], maxlen)

\* both threads are in a call for the same key, past the append
Overlap ==
    /\ call["mqtt"].pc \in {"mean", "std"}
    /\ call["loop"].pc \in {"mean", "std"}
    /\ call["mqtt"].key = call["loop"].key

\* C26: scoring is deterministic: a call with the same value as the call
\* before it, for the same key (the same message scored twice in a row),
\* returns the same is_anomaly, anomaly_score, trend, mean and std.
C26_SameMessageSameResult ==
    [][\A k \in Keys, v \in Readings :
          (/\ Called
           /\ last_analysis.key = k
           /\ last_analysis.value = v
           /\ analyze_message(k, v)) =>
             /\ last_analysis'.is_anomaly = last_analysis.is_anomaly
             /\ last_analysis'.anomaly_score = last_analysis.anomaly_score
             /\ last_analysis'.trend = last_analysis.trend
             /\ SameMean(last_analysis'.mean, last_analysis.mean)
             /\ SameStd(last_analysis'.std, last_analysis.std)]_vars

\* C29: with the threshold 3.0 the 10th message of a key is never reported
\* as an anomaly, whatever the ten values are (one value among n lies at
\* most sqrt(n - 1) standard deviations from their mean): a key's first
\* anomaly can be flagged at its 11th value at the earliest.
C29_TenthNeverFlagged ==
    (Called /\ Len(fed[last_analysis.key]) <= 10) => ~last_analysis.is_anomaly

\* what holds: the real number |value - mean| / std is at most 3 at the
\* 10th value; it is 3 when the other nine values are equal
TenthScoreAtMostThreshold ==
    (Called /\ Len(fed[last_analysis.key]) <= 10) =>
       last_analysis.anomaly_score.num
          <= anomaly_threshold * anomaly_threshold
                * last_analysis.anomaly_score.den

\* ------------------------------------------------------------------------
\* Alert duration and acknowledgement
\* ------------------------------------------------------------------------

\* C27: an alert instance is created only after the alert's condition has
\* been true continuously for at least `duration` seconds. A key that is
\* not active was found false at its previous evaluation, or was never
\* evaluated: an evaluation that then finds the condition true has seen it
\* true for 0 seconds, so it creates no instance and sends no notification.
C27_NoInstanceBeforeDuration ==
    [][\A alert \in Alerts, labels \in LabelDicts, value \in Values :
          (/\ EvaluateAlert(alert, labels, value)
           /\ IsNewAlert(AlertKey(alert, labels))
           /\ alert.duration > 0) =>
             /\ instances' = instances
             /\ notifications' = notifications]_vars

\* some active instance belongs to this alert
HasActiveInstance(alert_id) ==
    \E n \in 1..Len(active_alerts) :
       instances[active_alerts[n].inst].alert_id = alert_id

\* C28: acknowledging an alert_id that has no active instance returns
\* not-found (404) and changes nothing: active_alerts, alert_history, the
\* escalation timers and their tasks, and every instance with its
\* acknowledged fields stay as they were.
C28_UnknownAcknowledgeChangesNothing ==
    [][\A alert_id \in AlertIds \cup {"no_such_alert"}, by \in Users :
          ~HasActiveInstance(alert_id) =>
             /\ AcknowledgeResponse(alert_id) = 404
             /\ acknowledge_alert(alert_id, by) =>
                   UNCHANGED <<instances, active_alerts, alert_history,
                               escalation_timers, tasks>>]_vars

\* an alert id without an active instance, while an instance of another
\* alert is active, not acknowledged, and has an escalation timer: an
\* acknowledge with that id has an instance it could wrongly touch
C28_Witness ==
    \E alert_id \in AlertIds \cup {"no_such_alert"} :
       /\ ~HasActiveInstance(alert_id)
       /\ Matching(alert_id) = {}
       /\ \E n \in 1..Len(active_alerts) :
             /\ ~instances[active_alerts[n].inst].acknowledged
             /\ KeyIn(escalation_timers, active_alerts[n].key)

\* ------------------------------------------------------------------------
\* CircuitBreaker (common/base_service.py) and CircuitBreakerGateway
\* (gateway/api_gateway.py). A call awaits the wrapped function; other calls
\* run on the event loop in the meantime.
\* ------------------------------------------------------------------------

\* failure_threshold (default 3 in CircuitBreakerGateway, 5 in
\* CircuitBreakerConfig), scaled down
failure_threshold == 2

\* recovery_timeout, in ticks of the clock
recovery_timeout == 1

\* the last tick of the clock that is followed
MaxBreakerTime == 3

\* the failures of the wrapped function that are followed
MaxFailures == failure_threshold + 1

\* _should_attempt_reset: a failure is on record and more than
\* recovery_timeout has passed since
ShouldAttemptReset(last_failure) ==
    /\ last_failure # None
    /\ cb_now - last_failure > recovery_timeout

\* _on_success, and the same lines of call_service
OnSuccess(b) ==
    IF b.state = "half-open"
    THEN [b EXCEPT !.failure_count = 0, !.state = "closed"]
    ELSE b

\* _on_failure, and the same lines of call_service
OnFailure(b) ==
    [b EXCEPT !.failure_count = @ + 1,
              !.last_failure_time = cb_now,
              !.state = IF b.failure_count + 1 >= failure_threshold
                        THEN "open" ELSE @]

\* time.time() and datetime.now() move on
BreakerTick ==
    /\ cb_now < MaxBreakerTime
    /\ cb_now' = cb_now + 1
    /\ UNCHANGED <<breaker, cb_calls, dicts, service_states, gw_calls>>
    /\ UNCHANGED cbOthers

\* CircuitBreaker.call up to `await func(...)`, or to the raise of
\* "Circuit breaker is open"
CircuitBreaker_call(c) ==
    /\ cb_calls[c].pc = "idle"
    /\ IF breaker.state = "open"
       THEN IF ShouldAttemptReset(breaker.last_failure_time)
            THEN /\ breaker' = [breaker EXCEPT !.state = "half-open"]
                 /\ cb_calls' = [cb_calls EXCEPT ![c].pc = "awaiting",
                                                 ![c].trial = TRUE]
            ELSE UNCHANGED <<breaker, cb_calls>>
       ELSE /\ cb_calls' = [cb_calls EXCEPT ![c].pc = "awaiting"]
            /\ UNCHANGED breaker
    /\ UNCHANGED <<dicts, service_states, gw_calls, cb_now>>
    /\ UNCHANGED cbOthers

\* CircuitBreaker.call from the return or the exception of func on
CircuitBreaker_return(c, ok) ==
    /\ cb_calls[c].pc = "awaiting"
    /\ ok \/ breaker.failure_count < MaxFailures
    /\ breaker' = IF ok THEN OnSuccess(breaker) ELSE OnFailure(breaker)
    /\ cb_calls' = [cb_calls EXCEPT ![c] = NoBreakerCall]
    /\ UNCHANGED <<dicts, service_states, gw_calls, cb_now>>
    /\ UNCHANGED cbOthers

\* self.service_states.get(service_name, {...}): the dict on record, or a
\* new one
FreshDict == [failure_count |-> 0, last_failure_time |-> None,
              state |-> "closed"]

\* CircuitBreakerGateway.call_service up to `await func(...)`, or to the
\* raise of HTTPException(503)
call_service(c) ==
    /\ gw_calls[c].pc = "idle"
    /\ IF service_states = 0
       THEN /\ dicts' = Append(dicts, FreshDict)
            /\ gw_calls' = [gw_calls EXCEPT ![c].pc = "awaiting",
                                            ![c].dict = Len(dicts) + 1]
       ELSE LET service_state == dicts[service_states] IN
            IF service_state.state = "open"
            THEN IF ShouldAttemptReset(service_state.last_failure_time)
                 THEN /\ dicts' = [dicts EXCEPT
                                     ![service_states].state = "half-open"]
                      /\ gw_calls' = [gw_calls EXCEPT
                                        ![c].pc = "awaiting",
                                        ![c].trial = TRUE,
                                        ![c].dict = service_states]
                 ELSE UNCHANGED <<dicts, gw_calls>>
            ELSE /\ gw_calls' = [gw_calls EXCEPT
                                   ![c].pc = "awaiting",
                                   ![c].dict = service_states]
                 /\ UNCHANGED dicts
    /\ UNCHANGED <<breaker, cb_calls, service_states, cb_now>>
    /\ UNCHANGED cbOthers

\* call_service from the return or the exception of func on: the dict the
\* call holds is updated and put on record
call_service_return(c, ok) ==
    /\ gw_calls[c].pc = "awaiting"
    /\ ok \/ dicts[gw_calls[c].dict].failure_count < MaxFailures
    /\ dicts' = [dicts EXCEPT ![gw_calls[c].dict] =
                    IF ok THEN OnSuccess(@) ELSE OnFailure(@)]
    /\ service_states' = gw_calls[c].dict
    /\ gw_calls' = [gw_calls EXCEPT ![c] = NoBreakerCall]
    /\ UNCHANGED <<breaker, cb_calls, cb_now>>
    /\ UNCHANGED cbOthers

BreakerNext ==
    \/ BreakerTick
    \/ \E c \in CallSlots : CircuitBreaker_call(c)
    \/ \E c \in CallSlots, ok \in BOOLEAN : CircuitBreaker_return(c, ok)
    \/ \E c \in CallSlots : call_service(c)
    \/ \E c \in CallSlots, ok \in BOOLEAN : call_service_return(c, ok)

BreakerSpec == Init /\ [][BreakerNext]_vars

\* ------------------------------------------------------------------------
\* Properties of the circuit breakers
\* ------------------------------------------------------------------------

\* the failure count is below the threshold while the circuit is closed
ClosedBelowThreshold ==
    /\ breaker.state = "closed" => breaker.failure_count < failure_threshold
    /\ \A d \in 1..Len(dicts) :
          dicts[d].state = "closed" =>
             dicts[d].failure_count < failure_threshold

\* the circuit on record is open and recovery_timeout has not elapsed since
\* the last failure
OpenAndWaiting(b) ==
    /\ b.state = "open"
    /\ cb_now - b.last_failure_time < recovery_timeout

\* a call made while the circuit is open and waiting is rejected: it does
\* not come to await the wrapped function, and the circuit stays as it is
RejectsWhileOpen ==
    \A c \in CallSlots :
       /\ (CircuitBreaker_call(c) /\ OpenAndWaiting(breaker)) =>
             UNCHANGED <<breaker, cb_calls>>
       /\ (/\ call_service(c)
           /\ service_states # 0
           /\ OpenAndWaiting(dicts[service_states])) =>
             UNCHANGED <<dicts, gw_calls>>

\* the first call after the timeout runs with the circuit half-open
TrialRuns ==
    \A c \in CallSlots :
       /\ (/\ CircuitBreaker_call(c)
           /\ breaker.state = "open"
           /\ ShouldAttemptReset(breaker.last_failure_time)) =>
             /\ breaker'.state = "half-open"
             /\ cb_calls'[c].pc = "awaiting"
       /\ (/\ call_service(c)
           /\ service_states # 0
           /\ dicts[service_states].state = "open"
           /\ ShouldAttemptReset(dicts[service_states].last_failure_time)) =>
             /\ dicts'[service_states].state = "half-open"
             /\ gw_calls'[c].pc = "awaiting"

\* how the circuit b is left by the return of the call that ran as the trial
Decided(b, ok) ==
    IF ok THEN b.state = "closed" /\ b.failure_count = 0
    ELSE b.state = "open"

\* the success of the trial call closes the circuit with a failure count of
\* zero, its failure opens the circuit again
TrialDecides ==
    \A c \in CallSlots, ok \in BOOLEAN :
       /\ (CircuitBreaker_return(c, ok) /\ cb_calls[c].trial) =>
             Decided(breaker', ok)
       /\ (call_service_return(c, ok) /\ gw_calls[c].trial) =>
             Decided(dicts'[service_states'], ok)

\* C30: the circuit breaker keeps its protocol: while closed the failure
\* count is below failure_threshold; while open and before recovery_timeout
\* has elapsed since the last failure every call is rejected without the
\* wrapped function being invoked; the first call after the timeout runs
\* half-open, its success resets the count to zero and closes the circuit,
\* its failure opens the circuit again.
C30_BreakerProtocol ==
    /\ []ClosedBelowThreshold
    /\ [][RejectsWhileOpen /\ TrialRuns /\ TrialDecides]_vars

\* what holds: all of it but the outcome of the trial call
BreakerProtocolButTrial ==
    /\ []ClosedBelowThreshold
    /\ [][RejectsWhileOpen /\ TrialRuns]_vars

\* what holds: the trial call decides when the circuit is still half-open
\* at its return, as it is when no other call has returned in between
TrialDecidesWhileHalfOpen ==
    [][\A c \in CallSlots, ok \in BOOLEAN :
          /\ (/\ CircuitBreaker_return(c, ok)
              /\ cb_calls[c].trial
              /\ breaker.state = "half-open") => Decided(breaker', ok)
          /\ (/\ call_service_return(c, ok)
              /\ gw_calls[c].trial
              /\ dicts[gw_calls[c].dict].state = "half-open") =>
                Decided(dicts'[service_states'], ok)]_vars

\* a trial call awaits the wrapped function
TrialInFlight ==
    \E c \in CallSlots : cb_calls[c].trial \/ gw_calls[c].trial

====
